---- MODULE Spec2Model ----
(***************************************************************************)
(* The interactive chess board: the per-user Board table (app1/models.py), *)
(* the ChessForm square validator (app1/forms.py) and the chess_view       *)
(* request handler with newGame (app1/views.py).                           *)
(*                                                                         *)
(* A square token is the sequence of its character codes ("e2" is          *)
(* <<101, 50>>), so that lower(), ord(), int() and str() are computed as   *)
(* the code computes them.  A user's board is the set of Board rows of     *)
(* that user: a function from the location keys that have a row to the    *)
(* value of the row.                                                       *)
(***************************************************************************)
EXTENDS Integers, Sequences, FiniteSets, TLC

VARIABLES
    store,      \* store[u]: the Board rows of user u, location |-> value
    session,    \* session[u]: request.session["turn"], or NoTurn when the key is absent
    last,       \* the request handled last, the state it found and its response
    ply,        \* ply[u]: accepted moves of u since u's board was last initialized
    flight      \* the move requests being handled step by step (SpecConcurrent)

vars == <<store, session, last, ply, flight>>

-----------------------------------------------------------------------------
(* Bounds of the model *)

\* Spec: move requests are taken while fewer than MaxMoves moves were accepted
\* since the board was initialized
MaxMoves == 4

\* SpecProbe: the same, for requests drawn from all of ProbeSquares
ProbeMoves == 3

Users == {"u1", "u2"}

-----------------------------------------------------------------------------
(* Characters and square tokens *)

OrdLowerA == 97
OrdUpperA == 65
OrdZero == 48

Abs(n) == IF n < 0 THEN -n ELSE n
Max(a, b) == IF a >= b THEN a ELSE b

\* str.lower() of one character
Lower(c) == IF c >= OrdUpperA /\ c < OrdUpperA + 26 THEN c + (OrdLowerA - OrdUpperA) ELSE c

\* a character int() parses: a decimal digit; int() of it is then c - ord("0")
IsDecimal(c) == c >= OrdZero /\ c <= OrdZero + 9

\* ord("\u00b2"), the superscript two: a digit to str.isdigit(), a ValueError to int()
OrdSuperscriptTwo == 178

\* str.isdigit() of one character
IsDigit(c) == IsDecimal(c) \/ c = OrdSuperscriptTwo

\* str(n), as character codes
Str(n) ==
    IF n < 0 THEN <<45>> \o (IF -n < 10 THEN <<OrdZero + (-n)>>
                             ELSE <<OrdZero + ((-n) \div 10), OrdZero + ((-n) % 10)>>)
    ELSE IF n < 10 THEN <<OrdZero + n>>
    ELSE <<OrdZero + (n \div 10), OrdZero + (n % 10)>>

\* f"{files[i]}{rank}" with files = "abcdefgh": the token of file f (1..8), rank r
Sq(f, r) == <<OrdLowerA + (f - 1)>> \o Str(r)

Files == 1 .. 8
Ranks == 1 .. 8
Squares == {Sq(f, r) : f \in Files, r \in Ranks}

-----------------------------------------------------------------------------
(* Piece codes *)

Empty == "&nbsp;"

PIECE_MAPPING ==
    [p \in {"&#9817;", "&#9814;", "&#9816;", "&#9815;", "&#9813;", "&#9812;",
            "&#9823;", "&#9820;", "&#9822;", "&#9821;", "&#9819;", "&#9818;"} |->
        CASE p = "&#9817;" -> <<"pawn", "white">>
          [] p = "&#9814;" -> <<"rook", "white">>
          [] p = "&#9816;" -> <<"knight", "white">>
          [] p = "&#9815;" -> <<"bishop", "white">>
          [] p = "&#9813;" -> <<"queen", "white">>
          [] p = "&#9812;" -> <<"king", "white">>
          [] p = "&#9823;" -> <<"pawn", "black">>
          [] p = "&#9820;" -> <<"rook", "black">>
          [] p = "&#9822;" -> <<"knight", "black">>
          [] p = "&#9821;" -> <<"bishop", "black">>
          [] p = "&#9819;" -> <<"queen", "black">>
          [] p = "&#9818;" -> <<"king", "black">>]

\* value.strip() in ("", "&nbsp;"): no row ever holds other white space
IsBlank(v) == v \in {"", "&nbsp;"}

-----------------------------------------------------------------------------
(* app1/forms.py *)

\* what validate_square answers when int(rank) raises: a ValueError, which is no
\* ValidationError
ValueError == "<ValueError>"

\* validate_square: "" when the value passes, else the ValidationError; ValueError
\* when line 17 raises one
validate_square(value) ==
    IF Len(value) # 2 THEN "Enter a square in the format e2."
    ELSE IF ~(Lower(value[1]) >= OrdLowerA /\ Lower(value[1]) < OrdLowerA + 8)
        THEN "File must be a letter from a to h."
    ELSE IF ~IsDigit(value[2]) THEN "Rank must be a number from 1 to 8."
    ELSE IF ~IsDecimal(value[2]) THEN ValueError
    ELSE IF ~(1 <= value[2] - OrdZero /\ value[2] - OrdZero <= 8)
        THEN "Rank must be a number from 1 to 8."
    ELSE ""

\* the error a ChessForm field shows for its value ("" for none): an empty value is
\* turned away as missing before the validators run
FieldError(value) ==
    IF Len(value) = 0 THEN "This field is required." ELSE validate_square(value)

\* ChessForm.is_valid() ends in the ValueError a validator raised: the form machinery
\* catches ValidationError only
ChessForm_raises(source, destination) ==
    FieldError(source) = ValueError \/ FieldError(destination) = ValueError

\* ChessForm.is_valid(): both fields of length 2 and passing validate_square
ChessForm_is_valid(source, destination) ==
    /\ Len(source) = 2 /\ validate_square(source) = ""
    /\ Len(destination) = 2 /\ validate_square(destination) = ""

-----------------------------------------------------------------------------
(* app1/models.py *)

\* square_to_indices with row 0 at rank 1 (row = int(rank) - 1)
square_to_indices_flipped(square) ==
    IF Len(square) # 2
        THEN [ok |-> FALSE, row |-> 0, col |-> 0,
              msg |-> "Square must be a 2-character string, e.g. e2."]
    ELSE IF ~IsDecimal(square[2])
        THEN [ok |-> FALSE, row |-> 0, col |-> 0,
              msg |-> "Rank must be a number between 1 and 8."]
    ELSE LET col == Lower(square[1]) - OrdLowerA
             row == (square[2] - OrdZero) - 1
         IN  IF ~(0 <= row /\ row < 8 /\ 0 <= col /\ col < 8)
                 THEN [ok |-> FALSE, row |-> row, col |-> col,
                       msg |-> "Square out of bounds."]
                 ELSE [ok |-> TRUE, row |-> row, col |-> col, msg |-> ""]

\* square_to_indices: ok = FALSE with the message when it raises ValueError
square_to_indices(square) ==
    IF Len(square) # 2
        THEN [ok |-> FALSE, row |-> 0, col |-> 0,
              msg |-> "Square must be a 2-character string, e.g. e2."]
    ELSE IF ~IsDecimal(square[2])
        THEN [ok |-> FALSE, row |-> 0, col |-> 0,
              msg |-> "Rank must be a number between 1 and 8."]
    ELSE LET col == Lower(square[1]) - OrdLowerA
             row == 8 - (square[2] - OrdZero)
         IN  IF ~(0 <= row /\ row < 8 /\ 0 <= col /\ col < 8)
                 THEN [ok |-> FALSE, row |-> row, col |-> col,
                       msg |-> "Square out of bounds."]
                 ELSE [ok |-> TRUE, row |-> row, col |-> col, msg |-> ""]

\* get_piece_at that looks the square up without the user: the row of the first user
get_piece_at_any_owner(user, square) ==
    LET first == CHOOSE u \in Users : \A v \in Users : u = v \/ u # "u2"
    IN  IF square \in DOMAIN store[first] THEN store[first][square] ELSE Empty

\* get_piece_at: the value of the row (user, square), "&nbsp;" when there is none
get_piece_at(user, square) ==
    IF square \in DOMAIN store[user] THEN store[user][square] ELSE Empty

\* IndexSquare with the rank counted from the top row (rank = r + 1)
IndexSquareFromTop(r, c) == <<c + OrdLowerA>> \o Str(r + 1)

\* f"{file}{rank}" of board indices (r, c), as is_path_clear and the pawn rule build it
IndexSquare(r, c) == <<c + OrdLowerA>> \o Str(8 - r)

\* is_path_clear that starts at the second square of the path (range(2, steps))
is_path_clear_skip_first(user, source, destination) ==
    LET src == square_to_indices(source)
        dst == square_to_indices(destination)
        delta_row == dst.row - src.row
        delta_col == dst.col - src.col
        steps == Max(Abs(delta_row), Abs(delta_col))
    IN  IF steps <= 1 THEN TRUE
        ELSE LET step_row == delta_row \div steps
                 step_col == delta_col \div steps
             IN  \A step \in 2 .. (steps - 1) :
                     IsBlank(get_piece_at(user,
                         IndexSquare(src.row + step * step_row, src.col + step * step_col)))

\* the squares the loop of is_path_clear builds (lines 85-91), all of them when no
\* piece stops it
path_squares(source, destination) ==
    LET src == square_to_indices(source)
        dst == square_to_indices(destination)
        delta_row == dst.row - src.row
        delta_col == dst.col - src.col
        steps == Max(Abs(delta_row), Abs(delta_col))
    IN  IF steps <= 1 THEN {}
        ELSE LET step_row == delta_row \div steps
                 step_col == delta_col \div steps
             IN  {IndexSquare(src.row + step * step_row, src.col + step * step_col) :
                      step \in 1 .. (steps - 1)}

\* is_path_clear: no piece on the squares strictly between source and destination
is_path_clear(user, source, destination) ==
    \A square \in path_squares(source, destination) : IsBlank(get_piece_at(user, square))

\* PawnMove with the double move allowed from any row
PawnMoveAnyRow(user, src_row, src_col, d_row, d_col, piece_color, dest_piece) ==
    LET direction == IF piece_color = "white" THEN -1 ELSE 1
    IN  IF d_col = 0 /\ d_row = direction
            THEN IF IsBlank(dest_piece) THEN <<TRUE, "">>
                 ELSE <<FALSE, "Pawn cannot move forward into an occupied square.">>
        ELSE IF d_col = 0 /\ d_row = 2 * direction
            THEN IF /\ IsBlank(get_piece_at(user, IndexSquare(src_row + direction, src_col)))
                    /\ IsBlank(dest_piece)
                     THEN <<TRUE, "">>
                     ELSE <<FALSE, "Path is not clear for pawn's double move.">>
        ELSE IF Abs(d_col) = 1 /\ d_row = direction
            THEN IF ~IsBlank(dest_piece) THEN <<TRUE, "">>
                 ELSE <<FALSE, "Pawn diagonal move must capture an enemy piece.">>
        ELSE <<FALSE, "Illegal pawn move.">>

\* the pawn branch of validate_move
PawnMove(user, src_row, src_col, d_row, d_col, piece_color, dest_piece) ==
    LET direction == IF piece_color = "white" THEN -1 ELSE 1
        start_row == IF piece_color = "white" THEN 6 ELSE 1
    IN  IF d_col = 0 /\ d_row = direction
            THEN IF IsBlank(dest_piece) THEN <<TRUE, "">>
                 ELSE <<FALSE, "Pawn cannot move forward into an occupied square.">>
        ELSE IF d_col = 0 /\ d_row = 2 * direction /\ src_row = start_row
            THEN IF /\ IsBlank(get_piece_at(user, IndexSquare(src_row + direction, src_col)))
                    /\ IsBlank(dest_piece)
                     THEN <<TRUE, "">>
                     ELSE <<FALSE, "Path is not clear for pawn's double move.">>
        ELSE IF Abs(d_col) = 1 /\ d_row = direction
            THEN IF ~IsBlank(dest_piece) THEN <<TRUE, "">>
                 ELSE <<FALSE, "Pawn diagonal move must capture an enemy piece.">>
        ELSE <<FALSE, "Illegal pawn move.">>

\* KnightMove that also takes the (2, 2) jump
KnightMoveWide(d_row, d_col) ==
    IF <<Abs(d_row), Abs(d_col)>> \in {<<1, 2>>, <<2, 1>>, <<2, 2>>} THEN <<TRUE, "">>
    ELSE <<FALSE, "Illegal knight move.">>

\* the knight branch of validate_move
KnightMove(d_row, d_col) ==
    IF <<Abs(d_row), Abs(d_col)>> \in {<<1, 2>>, <<2, 1>>} THEN <<TRUE, "">>
    ELSE <<FALSE, "Illegal knight move.">>

\* the bishop branch of validate_move
BishopMove(user, source, destination, d_row, d_col) ==
    IF Abs(d_row) = Abs(d_col) /\ is_path_clear(user, source, destination) THEN <<TRUE, "">>
    ELSE <<FALSE, "Illegal bishop move or path is blocked.">>

\* the rook branch of validate_move
RookMove(user, source, destination, d_row, d_col) ==
    IF (d_row = 0 \/ d_col = 0) /\ is_path_clear(user, source, destination) THEN <<TRUE, "">>
    ELSE <<FALSE, "Illegal rook move or path is blocked.">>

\* the queen branch of validate_move
QueenMove(user, source, destination, d_row, d_col) ==
    IF /\ (Abs(d_row) = Abs(d_col)) \/ (d_row = 0 \/ d_col = 0)
       /\ is_path_clear(user, source, destination)
        THEN <<TRUE, "">>
    ELSE <<FALSE, "Illegal queen move or path is blocked.">>

\* the king branch of validate_move
KingMove(d_row, d_col) ==
    IF Max(Abs(d_row), Abs(d_col)) = 1 THEN <<TRUE, "">>
    ELSE <<FALSE, "Illegal king move.">>

\* OwnPieceAt with the colour test left out of validate_move
OwnPieceAtNever(dest_piece, piece_color) == FALSE

\* the destination holds a piece of the mover's colour
OwnPieceAt(dest_piece, piece_color) ==
    /\ ~IsBlank(dest_piece)
    /\ dest_piece \in DOMAIN PIECE_MAPPING
    /\ PIECE_MAPPING[dest_piece][2] = piece_color

\* validate_move: <<valid, message>>
validate_move(user, source, destination, piece) ==
    LET src == square_to_indices(source)
        dst == square_to_indices(destination)
    IN  IF ~src.ok THEN <<FALSE, src.msg>>
        ELSE IF ~dst.ok THEN <<FALSE, dst.msg>>
        ELSE IF piece \notin DOMAIN PIECE_MAPPING THEN <<FALSE, "Unknown piece type.">>
        ELSE
        LET piece_type == PIECE_MAPPING[piece][1]
            piece_color == PIECE_MAPPING[piece][2]
            dest_piece == get_piece_at(user, destination)
            d_row == dst.row - src.row
            d_col == dst.col - src.col
        IN  IF OwnPieceAt(dest_piece, piece_color)
                THEN <<FALSE, "Cannot capture your own piece.">>
            ELSE CASE piece_type = "pawn" ->
                        PawnMove(user, src.row, src.col, d_row, d_col, piece_color, dest_piece)
                   [] piece_type = "knight" -> KnightMove(d_row, d_col)
                   [] piece_type = "bishop" -> BishopMove(user, source, destination, d_row, d_col)
                   [] piece_type = "rook" -> RookMove(user, source, destination, d_row, d_col)
                   [] piece_type = "queen" -> QueenMove(user, source, destination, d_row, d_col)
                   [] piece_type = "king" -> KingMove(d_row, d_col)
                   [] OTHER -> <<FALSE, "Move not recognized.">>

\* MoveWrites with the source row left as it was
MoveWritesKeepSource(rows, source, destination, piece) ==
    [loc \in (DOMAIN rows \ {destination}) \cup {destination} |->
        IF loc = destination THEN piece ELSE rows[loc]]

\* the rows of the user once move_piece has written an accepted move: the row at the
\* destination deleted, the source row blanked, a row created at the destination
MoveWrites(rows, source, destination, piece) ==
    [loc \in (DOMAIN rows \ {destination}) \cup {destination} |->
        IF loc = destination THEN piece
        ELSE IF loc = source THEN Empty
        ELSE rows[loc]]

\* move_piece with the writes made before the move is validated
move_piece_write_first(user, source, destination) ==
    IF source \notin DOMAIN store[user]
        THEN [success |-> FALSE, message |-> "Source square not found.", rows |-> store[user]]
    ELSE LET piece == store[user][source]
             written == [loc \in (DOMAIN store[user] \ {destination}) \cup {destination} |->
                            IF loc = destination THEN piece
                            ELSE IF loc = source THEN Empty
                            ELSE store[user][loc]]
         IN
        IF IsBlank(piece)
            THEN [success |-> FALSE, message |-> "No piece at source.", rows |-> store[user]]
        ELSE LET v == validate_move(user, source, destination, piece) IN
            [success |-> v[1], message |-> IF v[1] THEN "Move completed." ELSE v[2],
             rows |-> written]

\* move_piece: success, message and the rows of the user afterwards
move_piece(user, source, destination) ==
    IF source \notin DOMAIN store[user]
        THEN [success |-> FALSE, message |-> "Source square not found.", rows |-> store[user]]
    ELSE LET piece == store[user][source] IN
        IF IsBlank(piece)
            THEN [success |-> FALSE, message |-> "No piece at source.", rows |-> store[user]]
        ELSE LET v == validate_move(user, source, destination, piece) IN
            IF ~v[1]
                THEN [success |-> FALSE, message |-> v[2], rows |-> store[user]]
                ELSE [success |-> TRUE, message |-> "Move completed.",
                      rows |-> MoveWrites(store[user], source, destination, piece)]

\* the initial_board table of reset_game, by rank and file
ResetLayout(f, r) ==
    CASE r = 1 -> <<"&#9820;", "&#9822;", "&#9821;", "&#9819;",
                    "&#9818;", "&#9821;", "&#9822;", "&#9820;">>[f]
      [] r = 2 -> "&#9823;"
      [] r = 7 -> "&#9817;"
      [] r = 8 -> <<"&#9814;", "&#9816;", "&#9815;", "&#9813;",
                    "&#9812;", "&#9815;", "&#9816;", "&#9814;">>[f]
      [] OTHER -> Empty

\* reset_game: the rows of the user afterwards (every row deleted, 64 created)
reset_game ==
    [loc \in Squares |->
        LET f == CHOOSE x \in Files : \E r \in Ranks : Sq(x, r) = loc
            r == CHOOSE y \in Ranks : Sq(f, y) = loc
        IN  ResetLayout(f, r)]

-----------------------------------------------------------------------------
(* app1/views.py *)

NoTurn == "<unset>"

\* request.session["turn"] once lines 11-12 have run
TurnInForce(user) == IF session[user] = NoTurn THEN "white" ELSE session[user]

\* NewGameLayout with the white king and queen on each other's squares
NewGameLayoutSwapped(f, r) ==
    CASE r = 8 -> <<"&#9820;", "&#9822;", "&#9821;", "&#9819;",
                    "&#9818;", "&#9821;", "&#9822;", "&#9820;">>[f]
      [] r = 7 -> "&#9823;"
      [] r = 2 -> "&#9817;"
      [] r = 1 -> <<"&#9814;", "&#9816;", "&#9815;", "&#9812;",
                    "&#9813;", "&#9815;", "&#9816;", "&#9814;">>[f]
      [] OTHER -> Empty

\* the initial_board table of newGame, by rank and file
NewGameLayout(f, r) ==
    CASE r = 8 -> <<"&#9820;", "&#9822;", "&#9821;", "&#9819;",
                    "&#9818;", "&#9821;", "&#9822;", "&#9820;">>[f]
      [] r = 7 -> "&#9823;"
      [] r = 2 -> "&#9817;"
      [] r = 1 -> <<"&#9814;", "&#9816;", "&#9815;", "&#9813;",
                    "&#9812;", "&#9815;", "&#9816;", "&#9814;">>[f]
      [] OTHER -> Empty

\* newGame: the rows of the user afterwards (every row deleted, 64 saved)
newGame ==
    [loc \in Squares |->
        LET f == CHOOSE x \in Files : \E r \in Ranks : Sq(x, r) = loc
            r == CHOOSE y \in Ranks : Sq(f, y) = loc
        IN  NewGameLayout(f, r)]

\* page_data["board"]: ranks 8 down to 1, files a to h, "&nbsp;" where no row exists
Snapshot(rows) ==
    [i \in 1 .. 8 |-> [f \in 1 .. 8 |->
        IF Sq(f, 9 - i) \in DOMAIN rows THEN rows[Sq(f, 9 - i)] ELSE Empty]]

\* SwitchTurn that always hands the turn to black
SwitchTurnStuck(turn) == "black"

\* "black" if request.session["turn"] == "white" else "white"
SwitchTurn(turn) == IF turn = "white" THEN "black" ELSE "white"

\* the move branch of chess_view (lines 23-53): the response and the writes.  When
\* the form raises, the request ends in the unhandled exception (a server error) and
\* the session, the turn of lines 11-12 with it, is not saved.
MoveOutcome(user, source, destination) ==
    LET turn == TurnInForce(user)
        piece == get_piece_at(user, source)
    IN  IF ChessForm_raises(source, destination)
            THEN [success |-> FALSE, error |-> "", form_ok |-> FALSE,
                  rows |-> store[user], turn |-> session[user]]
        ELSE IF ~ChessForm_is_valid(source, destination)
            THEN [success |-> FALSE, error |-> "", form_ok |-> FALSE,
                  rows |-> store[user], turn |-> turn]
        ELSE IF IsBlank(piece)
            THEN [success |-> FALSE, error |-> "No piece at the source square.",
                  form_ok |-> TRUE, rows |-> store[user], turn |-> turn]
        ELSE IF piece \notin DOMAIN PIECE_MAPPING
            THEN [success |-> FALSE, error |-> "Unrecognized piece.",
                  form_ok |-> TRUE, rows |-> store[user], turn |-> turn]
        ELSE IF PIECE_MAPPING[piece][2] # turn
            THEN [success |-> FALSE, error |-> "It is " \o turn \o "'s turn.",
                  form_ok |-> TRUE, rows |-> store[user], turn |-> turn]
        ELSE LET m == move_piece(user, source, destination) IN
            IF m.success
                THEN [success |-> TRUE, error |-> "", form_ok |-> TRUE, rows |-> m.rows,
                      turn |-> SwitchTurn(turn)]
                ELSE [success |-> FALSE, error |-> m.message, form_ok |-> TRUE,
                      rows |-> m.rows, turn |-> turn]

\* what a handled request leaves in `last`: the request, the response (success,
\* page_data["error"], the errors of the two form fields, whether the request ended in
\* an unhandled exception) and the rows and turn the request found
Response(op, user, source, destination, success, error) ==
    [op |-> op, user |-> user, source |-> source, destination |-> destination,
     success |-> success, error |-> error, form_errors |-> <<"", "">>, raised |-> FALSE,
     prevRows |-> store[user], prevTurn |-> TurnInForce(user)]

\* chess_view, POST with source and destination
ChessPostMove(user, source, destination) ==
    LET out == MoveOutcome(user, source, destination) IN
    /\ store' = [store EXCEPT ![user] = out.rows]
    /\ session' = [session EXCEPT ![user] = out.turn]
    /\ ply' = [ply EXCEPT ![user] = IF out.success THEN @ + 1 ELSE @]
    /\ last' = [Response("move", user, source, destination, out.success, out.error)
                    EXCEPT !.form_errors =
                               IF out.form_ok \/ ChessForm_raises(source, destination) THEN @
                               ELSE <<FieldError(source), FieldError(destination)>>,
                           !.raised = ChessForm_raises(source, destination)]
    /\ UNCHANGED flight

\* ChessPostNewGame whose newGame saves the 64 rows without deleting the rows there are
ChessPostNewGameKeepRows(user) ==
    /\ store' = [store EXCEPT ![user] =
                    [loc \in DOMAIN store[user] \cup Squares |->
                        IF loc \in Squares THEN newGame[loc] ELSE store[user][loc]]]
    /\ session' = [session EXCEPT ![user] = "white"]
    /\ ply' = [ply EXCEPT ![user] = 0]
    /\ last' = Response("new_game", user, <<>>, <<>>, TRUE, "")
    /\ UNCHANGED flight

\* chess_view, POST with new_game or reset
ChessPostNewGame(user) ==
    /\ store' = [store EXCEPT ![user] = newGame]
    /\ session' = [session EXCEPT ![user] = "white"]
    /\ ply' = [ply EXCEPT ![user] = 0]
    /\ last' = Response("new_game", user, <<>>, <<>>, TRUE, "")
    /\ UNCHANGED flight

\* chess_view, GET: a user without rows gets a new game
ChessGet(user) ==
    LET fresh == Cardinality(DOMAIN store[user]) = 0
        rows == IF fresh THEN newGame ELSE store[user]
    IN  /\ store' = [store EXCEPT ![user] = rows]
        /\ session' = [session EXCEPT ![user] = IF fresh THEN "white" ELSE TurnInForce(user)]
        /\ ply' = [ply EXCEPT ![user] = IF fresh THEN 0 ELSE @]
        /\ last' = Response("get", user, <<>>, <<>>, TRUE, "")
        /\ UNCHANGED flight

\* Board.reset_game(user), which no view calls
ResetGame(user) ==
    /\ store' = [store EXCEPT ![user] = reset_game]
    /\ ply' = [ply EXCEPT ![user] = 0]
    /\ last' = Response("reset_game", user, <<>>, <<>>, TRUE, "")
    /\ UNCHANGED <<session, flight>>

\* session[u] of a user who is logged out: there is no authenticated session
LoggedOut == "<logged out>"

\* user_logout: logout(request) flushes the session, the turn with it
UserLogout(user) ==
    /\ session[user] # LoggedOut
    /\ session' = [session EXCEPT ![user] = LoggedOut]
    /\ last' = Response("logout", user, <<>>, <<>>, TRUE, "")
    /\ UNCHANGED <<store, ply, flight>>

\* user_login, POST with the user's name and password: login(request, user) starts a
\* session without a turn, or keeps the data of the session the user is logged in with
\* (last.prevTurn: the turn the next request of a session without one finds)
UserLogin(user) ==
    /\ session' = [session EXCEPT ![user] = IF @ = LoggedOut THEN NoTurn ELSE @]
    /\ last' = [Response("login", user, <<>>, <<>>, TRUE, "") EXCEPT !.prevTurn = "white"]
    /\ UNCHANGED <<store, ply, flight>>

\* Board.move_piece(user, source, destination) called on its own, not by chess_view
CallMovePiece(user, source, destination) ==
    LET m == move_piece(user, source, destination) IN
    /\ store' = [store EXCEPT ![user] = m.rows]
    /\ ply' = [ply EXCEPT ![user] = IF m.success THEN @ + 1 ELSE @]
    /\ last' = Response("move_piece", user, source, destination, m.success, m.message)
    /\ UNCHANGED <<session, flight>>

\* Board.validate_move(user, source, destination, piece) called on its own
CallValidateMove(user, source, destination, piece) ==
    LET v == validate_move(user, source, destination, piece) IN
    /\ last' = Response("validate_move", user, source, destination, v[1], v[2])
    /\ UNCHANGED <<store, session, ply, flight>>

-----------------------------------------------------------------------------
(* A move request of chess_view handled step by step: each step is one access to *)
(* the Board table or to the session, and steps of two requests may alternate.   *)
(* A request reads its session when it starts and saves it when it ends.         *)

\* the requests that can be under way at once
Requests == {"r1", "r2"}

\* a request slot with no request under way; answer: how its last request ended
Idle ==
    [pc |-> "idle", user |-> "u1", source |-> <<>>, destination |-> <<>>,
     piece |-> Empty, turn |-> "white", answer |-> "none"]

\* no request under way; overlapped: some request started while another was under
\* way; accepted: the colours of the moves accepted so far, in order
NoFlight == [req |-> [r \in Requests |-> Idle], overlapped |-> FALSE, accepted |-> <<>>]

\* the slot once its request has ended with the answer
Ended(answer) == [Idle EXCEPT !.answer = answer]

\* chess_view lines 11-38: the turn of the session and the piece on the source are
\* read; a request without a piece of the colour in turn ends here
ReqStart(user, r, source, destination) ==
    LET turn == TurnInForce(user)
        piece == get_piece_at(user, source)
        go == /\ ChessForm_is_valid(source, destination)
              /\ ~IsBlank(piece)
              /\ piece \in DOMAIN PIECE_MAPPING
              /\ PIECE_MAPPING[piece][2] = turn
        busy == \E q \in Requests \ {r} : flight.req[q].pc # "idle"
    IN  /\ flight.req[r].pc = "idle"
        /\ flight' = [flight EXCEPT
                !.req[r] = IF go THEN [pc |-> "validate", user |-> user, source |-> source,
                                       destination |-> destination, piece |-> Empty,
                                       turn |-> turn, answer |-> "none"]
                           ELSE Ended("rejected"),
                !.overlapped = @ \/ busy]
        /\ session' = [session EXCEPT ![user] = IF go THEN @ ELSE turn]
        /\ UNCHANGED <<store, ply, last>>

\* move_piece lines 220-232: the source row is read and the move validated on the
\* rows as they are now.  A request that reaches this step found the turn in its
\* session, so a rejection leaves the session unmodified and unsaved.
ReqValidate(r) ==
    LET q == flight.req[r]
        m == move_piece(q.user, q.source, q.destination)
    IN  /\ q.pc = "validate"
        /\ flight' = [flight EXCEPT
                !.req[r] = IF m.success
                               THEN [q EXCEPT !.pc = "delete",
                                              !.piece = store[q.user][q.source]]
                               ELSE Ended("rejected")]
        /\ UNCHANGED <<store, session, ply, last>>

\* move_piece line 235: the row at the destination is deleted
ReqDelete(r) ==
    LET q == flight.req[r]
        rows == store[q.user]
    IN  /\ q.pc = "delete"
        /\ store' = [store EXCEPT ![q.user] =
                        [loc \in DOMAIN rows \ {q.destination} |-> rows[loc]]]
        /\ flight' = [flight EXCEPT !.req[r].pc = "save"]
        /\ UNCHANGED <<session, ply, last>>

\* ReqSave that leaves the source row as it is
ReqSaveNothing(r) ==
    /\ flight.req[r].pc = "save"
    /\ flight' = [flight EXCEPT !.req[r].pc = "create"]
    /\ UNCHANGED <<store, session, ply, last>>

\* move_piece lines 238-239: the source row read at line 221 is saved with "&nbsp;"
ReqSave(r) ==
    LET q == flight.req[r]
        rows == store[q.user]
    IN  /\ q.pc = "save"
        /\ store' = [store EXCEPT ![q.user] =
                        [loc \in DOMAIN rows \cup {q.source} |->
                            IF loc = q.source THEN Empty ELSE rows[loc]]]
        /\ flight' = [flight EXCEPT !.req[r].pc = "create"]
        /\ UNCHANGED <<session, ply, last>>

\* move_piece line 242: a row is created at the destination; where another request
\* has created one meanwhile, unique_together makes the create raise IntegrityError
\* and the request ends in the unhandled exception, its session unsaved
ReqCreate(r) ==
    LET q == flight.req[r]
        rows == store[q.user]
        taken == q.destination \in DOMAIN rows
    IN  /\ q.pc = "create"
        /\ store' = [store EXCEPT ![q.user] =
                        IF taken THEN rows
                        ELSE [loc \in DOMAIN rows \cup {q.destination} |->
                                 IF loc = q.destination THEN q.piece ELSE rows[loc]]]
        /\ flight' = [flight EXCEPT
                !.req[r] = IF taken THEN Ended("raised") ELSE [q EXCEPT !.pc = "flip"]]
        /\ UNCHANGED <<session, ply, last>>

\* chess_view line 45 and the end of the request: the turn read at the start is
\* switched and the session saved
ReqFlip(r) ==
    LET q == flight.req[r]
    IN  /\ q.pc = "flip"
        /\ session' = [session EXCEPT ![q.user] = SwitchTurn(q.turn)]
        /\ ply' = [ply EXCEPT ![q.user] = @ + 1]
        /\ flight' = [flight EXCEPT
                !.req[r] = Ended("accepted"),
                !.accepted = Append(@, PIECE_MAPPING[q.piece][2])]
        /\ UNCHANGED <<store, last>>

-----------------------------------------------------------------------------
(* The application: every user starts without rows and without a session turn *)

NoRows == [loc \in {} |-> Empty]

NoRequest ==
    [op |-> "none", user |-> "u1", source |-> <<>>, destination |-> <<>>,
     success |-> TRUE, error |-> "", form_errors |-> <<"", "">>, raised |-> FALSE,
     prevRows |-> NoRows, prevTurn |-> "white"]

Init ==
    /\ store = [u \in Users |-> NoRows]
    /\ session = [u \in Users |-> NoTurn]
    /\ ply = [u \in Users |-> 0]
    /\ last = NoRequest
    /\ flight = NoFlight

\* the user who plays; the other one is registered and never visits
Visitors == {"u1"}

\* the squares move requests are drawn from: e2 e4 e7 e5 g1 f3 d8 d4 d7 d5
ReqSquares ==
    {Sq(5, 2), Sq(5, 4), Sq(5, 7), Sq(5, 5), Sq(7, 1), Sq(6, 3), Sq(4, 8), Sq(4, 4),
     Sq(4, 7), Sq(4, 5)}

Move ==
    \E u \in Visitors :
        /\ ply[u] < MaxMoves
        /\ \E s \in ReqSquares, d \in ReqSquares : ChessPostMove(u, s, d)

NewGame == \E u \in Visitors : ChessPostNewGame(u)

Get == \E u \in Visitors : ChessGet(u)

Next == Move \/ NewGame \/ Get

Spec == Init /\ [][Next]_vars

-----------------------------------------------------------------------------
(* The application with Board.reset_game called as well (no view calls it) *)

Reset == \E u \in Visitors : ResetGame(u)

NextReset == Move \/ NewGame \/ Get \/ Reset

SpecReset == Init /\ [][NextReset]_vars

-----------------------------------------------------------------------------
(* The first visit of a user, then move requests drawn from every pair of the      *)
(* squares of files a to d and the white king's square e1, up to the first request *)
(* that is rejected.  A rejected request changes nothing (NoMutationOnReject), so  *)
(* the boards met are those of the accepted moves.                                 *)

ProbeSquares == {Sq(f, r) : f \in 1 .. 4, r \in Ranks} \cup {Sq(5, 1)}

FirstVisit == \E u \in Visitors : store[u] = NoRows /\ ChessGet(u)

Probe ==
    /\ ~(last.op = "move" /\ ~last.success)
    /\ \E u \in Visitors :
        /\ ply[u] < ProbeMoves
        /\ \E s \in ProbeSquares, d \in ProbeSquares : ChessPostMove(u, s, d)

NextProbe == FirstVisit \/ Probe

SpecProbe == Init /\ [][NextProbe]_vars

-----------------------------------------------------------------------------
(* The application with move requests whose square tokens are spelt with the file *)
(* letter in either case; every such token passes validate_square.               *)

\* SpecTokens: move requests are taken while fewer than TokenMoves moves were
\* accepted since the board was initialized
TokenMoves == 2

\* the token of a square with its file letter in upper case ("E2" for "e2")
UpperCase(sq) == <<sq[1] - (OrdLowerA - OrdUpperA), sq[2]>>

\* e2 e4 e7 e5 d1
TokenSquares == {Sq(5, 2), Sq(5, 4), Sq(5, 7), Sq(5, 5), Sq(4, 1)}

Tokens == TokenSquares \cup {UpperCase(sq) : sq \in TokenSquares}

MoveTokens ==
    \E u \in Visitors :
        /\ ply[u] < TokenMoves
        /\ \E s \in Tokens, d \in Tokens : ChessPostMove(u, s, d)

NextTokens == MoveTokens \/ NewGame \/ Get

SpecTokens == Init /\ [][NextTokens]_vars

-----------------------------------------------------------------------------
(* The first visit of a user, then requests and calls of the engine with tokens *)
(* well formed and malformed, up to the first one that is turned away.          *)

\* SpecInputs: requests are taken while fewer than InputMoves moves were accepted
InputMoves == 2

\* "", "e", "e22", "i2", "@2", "ex", "e0", "e9" and "e" with a superscript two
MalformedTokens ==
    {<<>>, <<101>>, <<101, 50, 50>>, <<105, 50>>, <<64, 50>>, <<101, 120>>,
     <<101, 48>>, <<101, 57>>, <<101, OrdSuperscriptTwo>>}

\* e2 e4 e7 e5
InputTokens == {Sq(5, 2), Sq(5, 4), Sq(5, 7), Sq(5, 5)} \cup MalformedTokens

\* the piece codes validate_move is called with: a white pawn, a black pawn
InputPieces == {"&#9817;", "&#9823;"}

InputPost ==
    /\ last.success
    /\ \E u \in Visitors :
        /\ ply[u] < InputMoves
        /\ \E s \in InputTokens, d \in InputTokens : ChessPostMove(u, s, d)

InputMovePiece ==
    /\ last.success
    /\ \E u \in Visitors :
        /\ ply[u] < InputMoves
        /\ \E s \in InputTokens, d \in InputTokens : CallMovePiece(u, s, d)

InputValidateMove ==
    /\ last.success
    /\ \E u \in Visitors :
        /\ ply[u] < InputMoves
        /\ \E s \in InputTokens, d \in InputTokens, piece \in InputPieces :
                CallValidateMove(u, s, d, piece)

NextInputs == FirstVisit \/ InputPost \/ InputMovePiece \/ InputValidateMove

SpecInputs == Init /\ [][NextInputs]_vars

-----------------------------------------------------------------------------
(* The application with both users playing, each on their own board *)

\* SpecOwners: move requests of a user are taken while fewer than OwnerMoves moves
\* of that user were accepted since the user's board was initialized
OwnerMoves == 2

\* e2 e4 e7 e5
OwnerSquares == {Sq(5, 2), Sq(5, 4), Sq(5, 7), Sq(5, 5)}

OwnerMove ==
    \E u \in Users :
        /\ ply[u] < OwnerMoves
        /\ \E s \in OwnerSquares, d \in OwnerSquares : ChessPostMove(u, s, d)

OwnerNewGame == \E u \in Users : ChessPostNewGame(u)

OwnerGet == \E u \in Users : ChessGet(u)

NextOwners == OwnerMove \/ OwnerNewGame \/ OwnerGet

SpecOwners == Init /\ [][NextOwners]_vars

-----------------------------------------------------------------------------
(* The application with logout and login: chess_view is login_required, so a user *)
(* who is logged out reaches it again only after user_login.                      *)

\* SpecSessions: move requests are taken while fewer than SessionMoves moves were
\* accepted since the board was initialized
SessionMoves == 3

\* e2 e4 e7 e5 g1 f3
SessionSquares == {Sq(5, 2), Sq(5, 4), Sq(5, 7), Sq(5, 5), Sq(7, 1), Sq(6, 3)}

SessionMove ==
    \E u \in Visitors :
        /\ session[u] # LoggedOut
        /\ ply[u] < SessionMoves
        /\ \E s \in SessionSquares, d \in SessionSquares : ChessPostMove(u, s, d)

SessionNewGame == \E u \in Visitors : session[u] # LoggedOut /\ ChessPostNewGame(u)

SessionGet == \E u \in Visitors : session[u] # LoggedOut /\ ChessGet(u)

Logout == \E u \in Visitors : UserLogout(u)

Login == \E u \in Visitors : UserLogin(u)

NextSessions == SessionMove \/ SessionNewGame \/ SessionGet \/ Logout \/ Login

SpecSessions == Init /\ [][NextSessions]_vars

-----------------------------------------------------------------------------
(* The first visit of a user, then move requests of that user handled step by *)
(* step, two at a time at most.                                               *)

\* SpecConcurrent: requests start while fewer than ConcurrentMoves moves were accepted
ConcurrentMoves == 2

\* e2 e3 e4 e7 e5
ConcurrentSquares == {Sq(5, 2), Sq(5, 3), Sq(5, 4), Sq(5, 7), Sq(5, 5)}

Start ==
    \E u \in Visitors, r \in Requests :
        /\ ply[u] < ConcurrentMoves
        /\ \E s \in ConcurrentSquares, d \in ConcurrentSquares : ReqStart(u, r, s, d)

Validate == \E r \in Requests : ReqValidate(r)

Delete == \E r \in Requests : ReqDelete(r)

Save == \E r \in Requests : ReqSave(r)

Create == \E r \in Requests : ReqCreate(r)

Flip == \E r \in Requests : ReqFlip(r)

NextConcurrent == FirstVisit \/ Start \/ Validate \/ Delete \/ Save \/ Create \/ Flip

SpecConcurrent == Init /\ [][NextConcurrent]_vars

-----------------------------------------------------------------------------
(* The first visit of a user, then one move request on the starting position, *)
(* drawn from every pair of the 64 squares.                                   *)

AnyPair ==
    /\ last.op = "get"
    /\ \E u \in Visitors : \E s \in Squares, d \in Squares : ChessPostMove(u, s, d)

NextSquares == FirstVisit \/ AnyPair

SpecSquares == Init /\ [][NextSquares]_vars

-----------------------------------------------------------------------------
(* Properties.  They read the request handled last (`last`), the rows and   *)
(* the turn it found (last.prevRows, last.prevTurn) and the state it left.  *)

WK == "&#9812;"
WQ == "&#9813;"
WR == "&#9814;"
WB == "&#9815;"
WN == "&#9816;"
WP == "&#9817;"
BK == "&#9818;"
BQ == "&#9819;"
BR == "&#9820;"
BB == "&#9821;"
BN == "&#9822;"
BP == "&#9823;"

\* the standard starting position as a snapshot: rank 8 first, files a to h
StandardBoard ==
    << <<BR, BN, BB, BQ, BK, BB, BN, BR>>,
       <<BP, BP, BP, BP, BP, BP, BP, BP>>,
       <<Empty, Empty, Empty, Empty, Empty, Empty, Empty, Empty>>,
       <<Empty, Empty, Empty, Empty, Empty, Empty, Empty, Empty>>,
       <<Empty, Empty, Empty, Empty, Empty, Empty, Empty, Empty>>,
       <<Empty, Empty, Empty, Empty, Empty, Empty, Empty, Empty>>,
       <<WP, WP, WP, WP, WP, WP, WP, WP>>,
       <<WR, WN, WB, WQ, WK, WB, WN, WR>> >>

\* file (1..8) and rank (1..8) of a lower-case square token
FileOf(sq) == sq[1] - 96
RankOf(sq) == sq[2] - 48

\* the occupant a snapshot shows on file f, rank r
On(board, f, r) == board[9 - r][f]

ColourOf(code) == PIECE_MAPPING[code][2]
KindOf(code) == PIECE_MAPPING[code][1]

\* the squares of a snapshot holding a piece of the colour
PiecesOf(board, colour) ==
    {<<f, r>> \in Files \X Ranks :
        On(board, f, r) # Empty /\ ColourOf(On(board, f, r)) = colour}

BoardBefore == Snapshot(last.prevRows)
BoardAfter == Snapshot(store[last.user])
MoveRequest == last.op = "move"
Accepted == last.op = "move" /\ last.success
Rejected == last.op = "move" /\ ~last.success
\* the occupants the request found on its source and destination
Mover == On(BoardBefore, FileOf(last.source), RankOf(last.source))
Target == On(BoardBefore, FileOf(last.destination), RankOf(last.destination))

\* C1: a rejected move request leaves the owner's rows, and with them the 8x8
\* snapshot read from the rows, and the turn as they were before the request.
NoMutationOnReject ==
    Rejected => /\ store[last.user] = last.prevRows
                /\ TurnInForce(last.user) = last.prevTurn

\* a sliding move rejected for its path or shape, on a board with moves made
RejectedOnPath ==
    /\ Rejected
    /\ last.error = "Illegal queen move or path is blocked."
    /\ ply[last.user] > 0

\* C2: an accepted move stores the opposite of the turn in force at the request
\* and is made by a piece of the colour in turn; a rejected one stores the turn
\* in force.
TurnAlternation ==
    /\ Accepted => /\ session[last.user] = (IF last.prevTurn = "white" THEN "black" ELSE "white")
                   /\ Mover # Empty
                   /\ ColourOf(Mover) = last.prevTurn
    /\ Rejected => session[last.user] = last.prevTurn

\* black moved and the turn went back to white
BlackMoveAccepted ==
    Accepted /\ last.prevTurn = "black" /\ session[last.user] = "white"

\* C3: after an accepted move the destination holds the piece that was on the
\* source, the source is empty, the other 62 squares are as before, and a captured
\* piece is gone (its colour has one piece fewer).
EffectOfAcceptedMove ==
    Accepted =>
        LET sf == FileOf(last.source)
            sr == RankOf(last.source)
            df == FileOf(last.destination)
            dr == RankOf(last.destination)
        IN  /\ Mover # Empty
            /\ On(BoardAfter, df, dr) = Mover
            /\ On(BoardAfter, sf, sr) = Empty
            /\ \A f \in Files, r \in Ranks :
                   (<<f, r>> # <<sf, sr>> /\ <<f, r>> # <<df, dr>>)
                       => On(BoardAfter, f, r) = On(BoardBefore, f, r)
            /\ \A colour \in {"white", "black"} :
                   Cardinality(PiecesOf(BoardAfter, colour)) =
                       Cardinality(PiecesOf(BoardBefore, colour))
                       - (IF Target # Empty /\ ColourOf(Target) = colour THEN 1 ELSE 0)

\* an accepted capture
CaptureAccepted == Accepted /\ Target # Empty

\* a request that initializes the board: new game or reset, or the GET of a user
\* without rows
Initialized ==
    \/ last.op = "new_game"
    \/ last.op = "get" /\ last.prevRows = NoRows

\* C4: after the initialization of the request handler, from any prior board,
\* the board is the standard layout (16 white, 16 black, ranks 3 to 6 empty) and
\* the turn is white.
InitializationInvariant ==
    Initialized =>
        /\ BoardAfter = StandardBoard
        /\ Cardinality(PiecesOf(BoardAfter, "white")) = 16
        /\ Cardinality(PiecesOf(BoardAfter, "black")) = 16
        /\ \A f \in Files, r \in 3 .. 6 : On(BoardAfter, f, r) = Empty
        /\ DOMAIN store[last.user] = Squares
        /\ session[last.user] = "white"

\* a new game started on a board in mid-game with black to move
NewGameInMidGame ==
    /\ last.op = "new_game"
    /\ BoardBefore # StandardBoard
    /\ last.prevRows # NoRows
    /\ last.prevTurn = "black"

\* C5: Board.reset_game leaves the standard layout of its docstring, the board
\* newGame produces.
ResetGameStandard ==
    last.op = "reset_game" =>
        /\ BoardAfter = StandardBoard
        /\ store[last.user] = newGame

-----------------------------------------------------------------------------
(* Movement rules, stated on files and ranks *)

Sign(n) == IF n > 0 THEN 1 ELSE IF n < 0 THEN -1 ELSE 0

\* a nonzero displacement along a file, a rank or a diagonal
Straight(df, dr) == (df = 0) # (dr = 0)
Diagonal(df, dr) == Abs(df) = Abs(dr) /\ df # 0

\* the squares strictly between (sf, sr) and (df, dr) on the line joining them
Between(sf, sr, df, dr) ==
    {<<f, r>> \in Files \X Ranks :
        /\ Straight(df - sf, dr - sr) \/ Diagonal(df - sf, dr - sr)
        /\ Straight(f - sf, r - sr) \/ Diagonal(f - sf, r - sr)
        /\ Sign(f - sf) = Sign(df - sf)
        /\ Sign(r - sr) = Sign(dr - sr)
        /\ Max(Abs(f - sf), Abs(r - sr)) < Max(Abs(df - sf), Abs(dr - sr))}

SrcFile == FileOf(last.source)
SrcRank == RankOf(last.source)
DstFile == FileOf(last.destination)
DstRank == RankOf(last.destination)

\* a piece stands strictly between the source and the destination of the request
Obstructed ==
    \E sq \in Between(SrcFile, SrcRank, DstFile, DstRank) :
        On(BoardBefore, sq[1], sq[2]) # Empty

\* the request moves a piece of the colour in turn
InTurn == MoveRequest /\ Mover # Empty /\ ColourOf(Mover) = last.prevTurn
OwnTarget == Target # Empty /\ ColourOf(Target) = ColourOf(Mover)
EnemyTarget == Target # Empty /\ ColourOf(Target) # ColourOf(Mover)

Slider == MoveRequest /\ Mover # Empty /\ KindOf(Mover) \in {"rook", "bishop", "queen"}

\* the displacement fits the sliding piece
SliderShape ==
    CASE KindOf(Mover) = "rook" -> Straight(DstFile - SrcFile, DstRank - SrcRank)
      [] KindOf(Mover) = "bishop" -> Diagonal(DstFile - SrcFile, DstRank - SrcRank)
      [] KindOf(Mover) = "queen" ->
            \/ Straight(DstFile - SrcFile, DstRank - SrcRank)
            \/ Diagonal(DstFile - SrcFile, DstRank - SrcRank)
      [] OTHER -> FALSE

\* C6: a rook, bishop or queen move with an occupied square strictly between
\* source and destination is rejected, the destination empty or not; and the
\* occupants of the source and of the destination do not obstruct: a move of the
\* right shape by the colour in turn, with nothing in between and no own piece on
\* the destination, is accepted.
PathObstruction ==
    Slider =>
        /\ Obstructed => Rejected
        /\ (InTurn /\ SliderShape /\ ~Obstructed /\ ~OwnTarget) => Accepted

\* a slider in turn, aimed at an enemy piece, rejected for a piece in between
BlockedCaptureRejected ==
    Slider /\ InTurn /\ SliderShape /\ EnemyTarget /\ Obstructed /\ Rejected

\* the pawn rule on the board the request found
PawnLegal ==
    LET fwd == IF ColourOf(Mover) = "white" THEN 1 ELSE -1
        home == IF ColourOf(Mover) = "white" THEN 2 ELSE 7
    IN  \/ /\ DstFile = SrcFile /\ DstRank = SrcRank + fwd
           /\ Target = Empty
        \/ /\ DstFile = SrcFile /\ DstRank = SrcRank + 2 * fwd /\ SrcRank = home
           /\ On(BoardBefore, SrcFile, SrcRank + fwd) = Empty
           /\ Target = Empty
        \/ /\ Abs(DstFile - SrcFile) = 1 /\ DstRank = SrcRank + fwd
           /\ EnemyTarget

PawnRequest == MoveRequest /\ Mover # Empty /\ KindOf(Mover) = "pawn"

\* C7: a pawn move is accepted iff it is one square straight forward onto an empty
\* square, two squares straight forward from the starting rank over an empty square
\* onto an empty square, or one square diagonally forward onto an enemy piece.  For
\* the pawn in turn this is the answer of the request; for a pawn out of turn, which
\* the request handler turns away, it is the answer of validate_move on that board.
PawnRules ==
    PawnRequest =>
        IF InTurn THEN Accepted <=> PawnLegal
        ELSE /\ Rejected
             /\ validate_move(last.user, last.source, last.destination, Mover)[1] <=> PawnLegal

\* a two-square advance from a rank that is not the starting rank, over empty
\* squares, rejected
LateDoubleAdvanceRejected ==
    /\ PawnRequest /\ InTurn /\ Rejected
    /\ DstFile = SrcFile
    /\ DstRank = SrcRank + 2 * (IF ColourOf(Mover) = "white" THEN 1 ELSE -1)
    /\ SrcRank # (IF ColourOf(Mover) = "white" THEN 2 ELSE 7)
    /\ Target = Empty
    /\ ~Obstructed

\* the shape rule of a piece that is no pawn
ShapeLegal ==
    LET adf == Abs(DstFile - SrcFile)
        adr == Abs(DstRank - SrcRank)
    IN  CASE KindOf(Mover) = "knight" -> <<adr, adf>> \in {<<1, 2>>, <<2, 1>>}
          [] KindOf(Mover) = "bishop" -> adr = adf /\ adr # 0 /\ ~Obstructed
          [] KindOf(Mover) = "rook" -> ((adr = 0) # (adf = 0)) /\ ~Obstructed
          [] KindOf(Mover) = "queen" ->
                /\ (adr = adf /\ adr # 0) \/ ((adr = 0) # (adf = 0))
                /\ ~Obstructed
          [] KindOf(Mover) = "king" -> Max(adr, adf) = 1
          [] OTHER -> FALSE

\* C8: a move of a knight, bishop, rook, queen or king of the colour in turn is
\* accepted iff the destination holds no piece of the mover's colour and the shape
\* rule of the piece holds; no move onto its own source is accepted, whatever the
\* piece.
NonPawnShapeRules ==
    /\ (InTurn /\ KindOf(Mover) # "pawn") => (Accepted <=> (~OwnTarget /\ ShapeLegal))
    /\ (MoveRequest /\ last.source = last.destination) => Rejected

\* a rook moved along its file
RookMoveAccepted ==
    Accepted /\ KindOf(Mover) = "rook" /\ DstFile = SrcFile /\ Abs(DstRank - SrcRank) >= 2

\* the messages of the shape and path rules of a piece kind
ShapeMessages(kind) ==
    CASE kind = "pawn" -> {"Pawn cannot move forward into an occupied square.",
                           "Path is not clear for pawn's double move.",
                           "Pawn diagonal move must capture an enemy piece.",
                           "Illegal pawn move."}
      [] kind = "knight" -> {"Illegal knight move."}
      [] kind = "bishop" -> {"Illegal bishop move or path is blocked."}
      [] kind = "rook" -> {"Illegal rook move or path is blocked."}
      [] kind = "queen" -> {"Illegal queen move or path is blocked."}
      [] kind = "king" -> {"Illegal king move."}

\* C9: the rejection reported is that of the first failing check: source empty,
\* then colour out of turn, then own piece on the destination, then the shape or
\* path rule of the piece.
RejectionPrecedence ==
    MoveRequest =>
        IF Mover = Empty
            THEN Rejected /\ last.error = "No piece at the source square."
        ELSE IF ColourOf(Mover) # last.prevTurn
            THEN Rejected /\ last.error = "It is " \o last.prevTurn \o "'s turn."
        ELSE IF OwnTarget
            THEN Rejected /\ last.error = "Cannot capture your own piece."
        ELSE Rejected => last.error \in ShapeMessages(KindOf(Mover))

\* a knight in turn sent, not in an L, onto a piece of its colour
OwnPieceBeforeShape ==
    /\ Rejected /\ InTurn /\ OwnTarget
    /\ KindOf(Mover) = "knight"
    /\ <<Abs(DstRank - SrcRank), Abs(DstFile - SrcFile)>> \notin {<<1, 2>>, <<2, 1>>}
    /\ last.error = "Cannot capture your own piece."

\* a snapshot with the occupant of file f, rank r replaced
Put(board, f, r, v) == [board EXCEPT ![9 - r][f] = v]

AfterE4 == Put(Put(StandardBoard, 5, 2, Empty), 5, 4, WP)
AfterE5 == Put(Put(AfterE4, 5, 7, Empty), 5, 5, BP)
AfterNf3 == Put(Put(AfterE5, 7, 1, Empty), 6, 3, WN)

\* the request moves from file sf, rank sr to file df, rank dr on the board, with
\* the turn
Requested(sf, sr, df, dr, board, turn) ==
    /\ MoveRequest
    /\ last.source = Sq(sf, sr) /\ last.destination = Sq(df, dr)
    /\ BoardBefore = board /\ last.prevTurn = turn

\* C10: from the starting position with white to move, e2-e4 is accepted and the
\* turn becomes black, e7-e5 is accepted and the turn becomes white, g1-f3 is
\* accepted and the turn becomes black, and d8-d4 is rejected (the queen is blocked
\* by the pawn on d7) with the board and the turn (black) unchanged.
ConcreteScenario ==
    /\ Requested(5, 2, 5, 4, StandardBoard, "white") =>
            Accepted /\ BoardAfter = AfterE4 /\ session[last.user] = "black"
    /\ Requested(5, 7, 5, 5, AfterE4, "black") =>
            Accepted /\ BoardAfter = AfterE5 /\ session[last.user] = "white"
    /\ Requested(7, 1, 6, 3, AfterE5, "white") =>
            Accepted /\ BoardAfter = AfterNf3 /\ session[last.user] = "black"
    /\ Requested(4, 8, 4, 4, AfterNf3, "black") =>
            /\ Rejected /\ last.error = "Illegal queen move or path is blocked."
            /\ BoardAfter = AfterNf3 /\ session[last.user] = "black"

\* the fourth request of the scenario, handled
QueenRequestAfterThreeMoves ==
    Requested(4, 8, 4, 4, AfterNf3, "black") /\ Rejected

-----------------------------------------------------------------------------
(* Token case *)

\* the token with its file letter in lower case
LowerCase(t) == [i \in 1 .. Len(t) |-> IF i = 1 THEN Lower(t[i]) ELSE t[i]]

\* C11: a move request whose tokens carry upper-case file letters is answered as the
\* request with the lower-case tokens would be on the same board and turn: the same
\* acceptance, the same snapshot afterwards and the same turn afterwards.
CaseInsensitiveTokens ==
    [][last'.op = "move" =>
        LET lower == MoveOutcome(last'.user, LowerCase(last'.source),
                                 LowerCase(last'.destination))
        IN  /\ last'.success = lower.success
            /\ Snapshot(store'[last'.user]) = Snapshot(lower.rows)
            /\ session'[last'.user] = lower.turn]_vars

-----------------------------------------------------------------------------
(* Initialization, again *)

\* the rows of the standard starting position: one for each of the 64 squares
StandardRows == [sq \in Squares |-> On(StandardBoard, FileOf(sq), RankOf(sq))]

\* C12: initialization leaves the same rows whatever rows it found (none, those of a
\* game in progress, rows under stray keys), and initializing an initialized board
\* leaves it as it is.
InitializeIdempotent ==
    Initialized =>
        /\ store[last.user] = StandardRows
        /\ last.prevRows = StandardRows => store[last.user] = last.prevRows

\* a new game started on a board in mid-game that holds a row under a stray key
NewGameOverStrayRow ==
    /\ last.op = "new_game"
    /\ last.prevRows # NoRows
    /\ DOMAIN last.prevRows # Squares
    /\ last.prevTurn = "black"

-----------------------------------------------------------------------------
(* Malformed tokens *)

\* a token that is no square: not two characters, a file outside a..h (in either
\* case), or a rank that is not one of the digits 1 to 8
Malformed(t) ==
    ~(/\ Len(t) = 2
      /\ (t[1] \in 97 .. 104 \/ t[1] \in 65 .. 72)
      /\ t[2] \in 49 .. 56)

MalformedRequest ==
    /\ last.op \in {"move", "move_piece", "validate_move"}
    /\ Malformed(last.source) \/ Malformed(last.destination)

\* C13: a request with a malformed source or destination token is rejected with a
\* message (a form error of chess_view, the message of move_piece or validate_move)
\* and leaves the rows and the turn as they were.
MalformedTokenRejected ==
    MalformedRequest =>
        /\ ~last.success
        /\ ~last.raised
        /\ IF last.op = "move" THEN last.form_errors # <<"", "">> ELSE last.error # ""
        /\ store[last.user] = last.prevRows
        /\ TurnInForce(last.user) = last.prevTurn

-----------------------------------------------------------------------------
(* Owner isolation *)

\* the answer the rules give to the move request on the rows the request found for
\* its own user, and on nothing else
LegalOnOwnBoard ==
    /\ InTurn
    /\ ~OwnTarget
    /\ IF KindOf(Mover) = "pawn" THEN PawnLegal ELSE ShapeLegal

\* C14: a request of one user (a move, accepted or rejected, an initialization, a
\* page load) leaves the rows and the turn of every other user as they were, and a
\* move request is accepted or rejected by the rows of its own user alone.
OwnerIsolation ==
    [][/\ \A u \in Users \ {last'.user} :
            store'[u] = store[u] /\ session'[u] = session[u] /\ ply'[u] = ply[u]
       /\ (MoveRequest => (Accepted <=> LegalOnOwnBoard))']_vars

\* a move of the second user accepted while the first user's board is another one
MoveBesideOtherBoard ==
    /\ Accepted
    /\ last.user = "u2"
    /\ store["u1"] # NoRows
    /\ Snapshot(store["u1"]) # BoardBefore
    /\ Snapshot(store["u1"]) # BoardAfter

-----------------------------------------------------------------------------
(* Sessions *)

\* C15: through moves, new games, page loads, logout and login, the accepted moves
\* since the last initialization of the board alternate in colour, white first: the
\* first, third, ... accepted move is white's, the second, fourth, ... black's.
AlternationAcrossSessions ==
    Accepted =>
        ColourOf(Mover) = IF ply[last.user] % 2 = 1 THEN "white" ELSE "black"

-----------------------------------------------------------------------------
(* The shape of the store *)

\* the location keys of the rows that hold a piece of the colour
RecordsOf(rows, colour) ==
    {loc \in DOMAIN rows : rows[loc] \in DOMAIN PIECE_MAPPING /\ ColourOf(rows[loc]) = colour}

\* C16: once a user's board is initialized, through any sequence of move requests
\* with tokens the form accepts, the user has exactly one row for each of the 64
\* squares a1..h8 and none under another key, each row holds the empty code or one of
\* the 12 piece codes, each colour has at most 16 pieces, and no request leaves a
\* colour with more pieces than it found.
StoreShape ==
    \A u \in Visitors :
        store[u] # NoRows =>
            /\ DOMAIN store[u] = Squares
            /\ \A loc \in DOMAIN store[u] : store[u][loc] \in {Empty} \cup DOMAIN PIECE_MAPPING
            /\ \A colour \in {"white", "black"} :
                /\ Cardinality(RecordsOf(store[u], colour)) <= 16
                /\ (last.op = "move" /\ last.user = u) =>
                        Cardinality(RecordsOf(store[u], colour))
                            <= Cardinality(RecordsOf(last.prevRows, colour))

-----------------------------------------------------------------------------
(* Requests handled step by step *)

Quiescent == \A r \in Requests : flight.req[r].pc = "idle"

\* the colours alternate, white first
Alternates(colours) ==
    \A i \in 1 .. Len(colours) : colours[i] = IF i % 2 = 1 THEN "white" ELSE "black"

\* what every serial execution of move requests on an initialized board keeps: the
\* accepted moves alternate in colour, the stored turn is the one after the last of
\* them, no request ends in an exception, and between requests the board has its 64
\* rows and no more than the 16 pieces of each colour
SerialOutcome(u) ==
    /\ Alternates(flight.accepted)
    /\ \A r \in Requests : flight.req[r].answer # "raised"
    /\ (Quiescent /\ store[u] # NoRows) =>
        /\ DOMAIN store[u] = Squares
        /\ TurnInForce(u) = IF Len(flight.accepted) % 2 = 0 THEN "white" ELSE "black"
        /\ \A colour \in {"white", "black"} :
               Cardinality(PiecesOf(Snapshot(store[u]), colour)) <= 16

\* C17: the steps of a move request (read turn and source, validate, delete the
\* destination row, blank the source row, create the destination row, switch the
\* turn) are separate, and two requests of one user whose steps alternate reach a
\* state no serial execution reaches (LostAtomicity); as long as no request starts
\* while another is under way, every state reached is one of a serial execution.
SerializedRequestsStaySerial ==
    \A u \in Visitors : ~flight.overlapped => SerialOutcome(u)

\* e2-e3 and e2-e4 both accepted for the one pawn: white pawns on e3 and on e4, both
\* moves white's
LostAtomicity ==
    /\ flight.overlapped
    /\ Quiescent
    /\ flight.accepted = <<"white", "white">>
    /\ get_piece_at("u1", Sq(5, 3)) = WP
    /\ get_piece_at("u1", Sq(5, 4)) = WP
    /\ Cardinality(PiecesOf(Snapshot(store["u1"]), "white")) = 17

-----------------------------------------------------------------------------
(* Squares and board indices *)

\* source and destination lie on one rank, one file or one diagonal
Aligned ==
    \/ Straight(DstFile - SrcFile, DstRank - SrcRank)
    \/ Diagonal(DstFile - SrcFile, DstRank - SrcRank)

\* the board indices square_to_indices gives to the 64 squares
IndexImage == {<<square_to_indices(sq).row, square_to_indices(sq).col>> : sq \in Squares}

\* square_to_indices gives the square row 8 - rank and column file - 'a', the square
\* rebuilt from them is the square itself, and the snapshot shows the row of the
\* square at that row and column
RoundTrip(user, sq) ==
    LET ix == square_to_indices(sq)
    IN  /\ ix.ok
        /\ ix.row = 8 - RankOf(sq)
        /\ ix.col = FileOf(sq) - 1
        /\ IndexSquare(ix.row, ix.col) = sq
        /\ Snapshot(store[user])[ix.row + 1][ix.col + 1] = get_piece_at(user, sq)

\* C18: square_to_indices maps the 64 squares one-to-one onto {0..7} x {0..7}, with
\* row = 8 - rank and col = file - 'a'; the square rebuilt from the indices is the
\* original one; the squares is_path_clear inspects for an aligned move are on the
\* board and strictly between source and destination; the snapshot lists rank 8
\* first and files a to h.
SquareIndexRoundTrip ==
    MoveRequest =>
        /\ IndexImage = (0 .. 7) \X (0 .. 7)
        /\ RoundTrip(last.user, last.source)
        /\ RoundTrip(last.user, last.destination)
        /\ last.source # last.destination =>
                <<square_to_indices(last.source).row, square_to_indices(last.source).col>>
                    # <<square_to_indices(last.destination).row,
                        square_to_indices(last.destination).col>>
        /\ Aligned =>
                \A sq \in path_squares(last.source, last.destination) :
                    /\ sq \in Squares
                    /\ <<FileOf(sq), RankOf(sq)>> \in Between(SrcFile, SrcRank, DstFile, DstRank)

\* the bishop on c1 asked to f4: is_path_clear inspects d2 and e3 and finds the pawn
BishopPathInspected ==
    /\ Rejected
    /\ Mover = WB
    /\ last.source = Sq(3, 1)
    /\ last.destination = Sq(6, 4)
    /\ path_squares(last.source, last.destination) = {Sq(4, 2), Sq(5, 3)}
    /\ last.error = "Illegal bishop move or path is blocked."

====
